---- MODULE Spec2Model ----
(***************************************************************************)
(* The feed worker of golang-cassandra-kafka-feed: Worker.Run starts a     *)
(* pool of processLoop goroutines, runs readLoop on the calling goroutine, *)
(* closes the jobs channel and joins the pool.  Each processLoop decodes a *)
(* payload, looks the author's followers up and starts one goroutine per   *)
(* follower (a "unit") that calls AddToFeed, bounded by a semaphore.       *)
(***************************************************************************)
EXTENDS Integers, Sequences, FiniteSets, TLC

\* ---------------------------------------------------------------- bounds
\* Worker.workerCount as Run uses it (any positive number in the source).
workerCount == 2
\* Worker.jobQueueSize as Run uses it: the capacity of the jobs channel.
jobQueueSize == 1
\* const fanoutLimit (20 in the source), scaled down so that a follower list
\* longer than the limit stays small.
fanoutLimit == 1
\* Number of non-empty messages the queue delivers in one run.
MaxMessages == 2
\* Cap on the retry counter of readLoop (consecutive failed reads).
MaxRetry == 1
\* Number of store calls (GetFollowers, AddToFeed) that fail in one run.
MaxStoreErrors == 1
\* Largest retry count the back-off is computed for: past the ceiling (10)
\* and past the width of an int64 (63).
MaxBackoffRetry == 70
\* Largest capacity of the jobs channel where the order of the buffer is looked at.
MaxQueue == 2
\* Sizes passed to New range over -MaxConfig..MaxConfig.
MaxConfig == 2
\* runtime.NumCPU() ranges over 1..MaxCPU.
MaxCPU == 2
\* Number of concurrent callers that create a user with one username.
MaxCallers == 3
\* Number of create-post requests the server handles, concurrently.
MaxRequests == 2

\* ----------------------------------------------------------------- data
Workers == 1..workerCount

\* What a non-empty message carries: malformed JSON, or a post of an author.
Bodies == {"bad", "a1", "a2"}

NoMsg == [id |-> 0, body |-> "none"]

ZeroPost == [ID |-> 0, AuthorID |-> "none"]

\* json.Unmarshal(data, &post): an error for malformed bytes, else the post.
Unmarshal(data) ==
  IF data.body = "bad"
    THEN [err |-> TRUE, post |-> ZeroPost]
    ELSE [err |-> FALSE, post |-> [ID |-> data.id, AuthorID |-> data.body]]

\* The follow table held by the store: a1 has one follower more than the
\* fan-out limit, a2's list names the same follower twice.
Followers(author) ==
  CASE author = "a1" -> [i \in 1..(fanoutLimit + 1) |-> i]
    [] author = "a2" -> <<1, 1>>
    [] OTHER -> <<>>

\* math.Pow(2, float64(r)) for r >= 0: the float64 2^r, exact up to r = 1023
\* and +Inf beyond.  A value of 2^31 or more is kept as "big" only.
Pow2(r) == [big |-> r > 30, val |-> IF r > 30 THEN 0 ELSE 2^r]

\* time.Duration(math.Min(1000, x)) for a float64 x that is a whole number
\* or +Inf: the conversion truncates nothing.
MinCeiling(x) == IF x.big \/ x.val > 1000 THEN 1000 ELSE x.val

\* Mutant of backoff: the power is an integer shift, 1 << retry on an int64,
\* which is negative at 63 and 0 from 64 on.
backoffShift(r) ==
  IF r >= 64 THEN 0
  ELSE IF r = 63 THEN 0 - 1
  ELSE IF r > 30 THEN 1000
  ELSE IF 2^r > 1000 THEN 1000 ELSE 2^r

\* The back-off of readLoop after a failed read, in milliseconds.
backoff(r) == MinCeiling(Pow2(r))

\* Mutant of New: the capacity falls back to the literal 10, as in Run.
NewFixedQueue(wc, jq, numCPU) ==
  [workerCount |-> IF wc <= 0 THEN numCPU ELSE wc,
   jobQueueSize |-> IF jq <= 0 THEN 10 ELSE jq]

\* worker.New: a non-positive workerCount becomes runtime.NumCPU(), then a
\* non-positive jobQueueSize becomes workerCount * 10.
New(wc, jq, numCPU) ==
  LET c == IF wc <= 0 THEN numCPU ELSE wc
  IN [workerCount |-> c, jobQueueSize |-> IF jq <= 0 THEN c * 10 ELSE jq]

\* The first statements of Run: a non-positive workerCount becomes 1, a
\* non-positive jobQueueSize becomes 10.
Normalise(f) ==
  [workerCount |-> IF f.workerCount <= 0 THEN 1 ELSE f.workerCount,
   jobQueueSize |-> IF f.jobQueueSize <= 0 THEN 10 ELSE f.jobQueueSize]

VARIABLES
  ctxDone,     \* the context passed to Run has been cancelled
  run,         \* where Run is: "new", "running", "waiting", "returned"
  jobs,        \* the jobs channel's buffer
  closeCount,  \* number of close(jobs) executed
  wg,          \* Run's sync.WaitGroup counter
  rl,          \* where readLoop is
  retry,       \* readLoop's retry counter
  wait,        \* readLoop's last back-off delay in ms (0: none since a success)
  msg,         \* the payload readLoop holds between the read and the push
  nread,       \* non-empty messages read so far
  reads,       \* every non-empty payload ReadMessage has returned
  dropped,     \* payloads abandoned by the push timeout
  wpc,         \* where each processLoop is
  data,        \* the payload a processLoop has received
  post,        \* the post a processLoop has decoded
  followers,   \* the list GetFollowers returned to a processLoop
  idx,         \* position of the range loop over followers
  sem,         \* permits held in a processLoop's semaphore
  fwg,         \* a processLoop's fanoutWG counter
  units,       \* per-follower goroutines launched and not yet finished
  lookups,     \* GetFollowers calls made: [post, err]
  feedCalls,   \* AddToFeed calls made: [post, uid, k, ok]
  readerClosed,\* number of reader.Close calls
  storeClosed, \* number of store.Close calls
  nfail,       \* store calls that have failed so far
  closeRet,    \* what Worker.Close returned: "none" (not called), "nil", "err"
  closeLog,    \* the Close calls Worker.Close has made, in order: [call, err]
  args,        \* how the Worker was built: [path, workerCount, jobQueueSize, numCPU]
  fields,      \* the Worker's fields workerCount and jobQueueSize
  built,       \* "args" (not built), "built", "normalised" (Run has started)
  hpc,         \* where each createPostHandler call is
  hin,         \* the request of each call: [json, auth, len]
  status,      \* the HTTP status each call has answered with (0: none yet)
  topic,       \* posts whose event WriteMessages has published
  writeFailed, \* calls whose WriteMessages returned an error
  addPostCalls,\* calls that have called store.AddPost
  postsTable,  \* posts saved in the posts table
  enq,         \* ids of the payloads sent on jobs, in the order of the sends
  deq,         \* ids of the payloads received from jobs, in the order of the receives
  upc,         \* where each caller that creates a user is
  uret,        \* the user id a caller got back (0: none, the empty string)
  byUsername,  \* user_id of the username's row in users_by_username (0: no row)
  users,       \* user ids that have a row in the users table
  exited       \* main has returned: the process is gone

vars == <<ctxDone, run, jobs, closeCount, wg, rl, retry, wait, msg, nread,
          reads, dropped, wpc, data, post, followers, idx, sem, fwg, units,
          lookups, feedCalls, nfail, readerClosed, storeClosed, closeRet,
          closeLog, args, fields, built, hpc, hin, status, topic, writeFailed,
          addPostCalls, postsTable, enq, deq, upc, uret, byUsername, users,
          exited>>

runVars == <<run, closeCount, wg>>
readVars == <<rl, retry, wait, msg, nread, reads, dropped>>
procVars == <<wpc, data, post, followers, idx, sem, fwg>>
logVars == <<lookups, feedCalls, nfail>>
closeVars == <<readerClosed, storeClosed, closeRet, closeLog>>
cfgVars == <<args, fields, built>>
fifoVars == <<enq, deq>>
userVars == <<upc, uret, byUsername, users>>
srvVars == <<hpc, hin, status, topic, writeFailed, addPostCalls, postsTable>>

\* The create-post requests, and what a request can look like: a body that
\* decodes as JSON or not, a user id in the request context or not, and the
\* length of the post body.
Requests == 1..MaxRequests

RequestInputs == [json : BOOLEAN, auth : BOOLEAN, len : {0, 1, 1000, 1001}]

\* The callers of createUserHandler and Store.CreateUser, all with the same
\* username; the TimeUUID a caller generates is its own number.
Callers == 1..MaxCallers

\* Nobody creates a user.
NoUsers ==
  /\ upc = [c \in Callers |-> "none"]
  /\ uret = [c \in Callers |-> 0]
  /\ byUsername = 0
  /\ users = {}

\* No server runs next to the worker.
NoServer ==
  /\ hpc = [r \in Requests |-> "none"]
  /\ hin = [r \in Requests |-> [json |-> FALSE, auth |-> FALSE, len |-> 0]]
  /\ status = [r \in Requests |-> 0]
  /\ topic = {}
  /\ writeFailed = {}
  /\ addPostCalls = {}
  /\ postsTable = {}

Init ==
  /\ NoServer
  /\ ctxDone = FALSE
  /\ run = "new"
  /\ jobs = <<>>
  /\ closeCount = 0
  /\ wg = 0
  /\ rl = "idle"
  /\ retry = 0
  /\ wait = 0
  /\ msg = NoMsg
  /\ nread = 0
  /\ reads = {}
  /\ dropped = {}
  /\ wpc = [w \in Workers |-> "idle"]
  /\ data = [w \in Workers |-> NoMsg]
  /\ post = [w \in Workers |-> ZeroPost]
  /\ followers = [w \in Workers |-> <<>>]
  /\ idx = [w \in Workers |-> 0]
  /\ sem = [w \in Workers |-> 0]
  /\ fwg = [w \in Workers |-> 0]
  /\ units = {}
  /\ lookups = {}
  /\ feedCalls = {}
  /\ nfail = 0
  /\ readerClosed = 0
  /\ storeClosed = 0
  /\ closeRet = "none"
  /\ closeLog = <<>>
  /\ enq = <<>>
  /\ deq = <<>>
  /\ NoUsers
  /\ args = [path |-> "New", workerCount |-> workerCount,
             jobQueueSize |-> jobQueueSize, numCPU |-> 1]
  /\ fields = New(workerCount, jobQueueSize, 1)
  /\ built = "built"
  /\ exited = FALSE

\* ------------------------------------------------------------ environment
\* The context is cancelled (a signal, a timeout).
Cancel ==
  /\ ~ctxDone
  /\ ~exited
  /\ ctxDone' = TRUE
  /\ UNCHANGED <<jobs, units, exited>>
  /\ UNCHANGED <<runVars, readVars, procVars, logVars, closeVars, cfgVars,
                 srvVars, userVars, fifoVars>>

\* -------------------------------------------------------------------- Run
\* Run up to the call of readLoop: the channel is made, the pool is started.
RunStart ==
  /\ run = "new"
  /\ built = "built"
  /\ fields' = Normalise(fields)
  /\ built' = "normalised"
  /\ run' = "running"
  /\ jobs' = <<>>
  /\ wg' = fields'.workerCount
  /\ wpc' = [w \in 1..fields'.workerCount |-> "recv"]
  /\ data' = [w \in 1..fields'.workerCount |-> NoMsg]
  /\ post' = [w \in 1..fields'.workerCount |-> ZeroPost]
  /\ followers' = [w \in 1..fields'.workerCount |-> <<>>]
  /\ idx' = [w \in 1..fields'.workerCount |-> 0]
  /\ sem' = [w \in 1..fields'.workerCount |-> 0]
  /\ fwg' = [w \in 1..fields'.workerCount |-> 0]
  /\ rl' = "top"
  /\ UNCHANGED <<ctxDone, closeCount, retry, wait, msg, nread, reads, dropped,
                 units, args, exited>>
  /\ UNCHANGED <<logVars, closeVars, srvVars, userVars, fifoVars>>

\* Mutant of RunClose: readLoop started with a go statement, so that Run
\* reaches close(jobs) while readLoop is still running.
RunCloseEarly ==
  /\ run = "running"
  /\ closeCount' = closeCount + 1
  /\ run' = "waiting"
  /\ UNCHANGED <<ctxDone, jobs, wg, units, exited>>
  /\ UNCHANGED <<readVars, procVars, logVars, closeVars, cfgVars, srvVars, userVars, fifoVars>>

\* close(jobs), the statement after the call of readLoop.
RunClose ==
  /\ run = "running"
  /\ rl = "returned"
  /\ closeCount' = closeCount + 1
  /\ run' = "waiting"
  /\ UNCHANGED <<ctxDone, jobs, wg, units, exited>>
  /\ UNCHANGED <<readVars, procVars, logVars, closeVars, cfgVars, srvVars, userVars, fifoVars>>

\* wg.Wait() and the return of Run.
RunReturn ==
  /\ run = "waiting"
  /\ wg = 0
  /\ run' = "returned"
  /\ UNCHANGED <<ctxDone, jobs, closeCount, wg, units, exited>>
  /\ UNCHANGED <<readVars, procVars, logVars, closeVars, cfgVars, srvVars, userVars, fifoVars>>

\* --------------------------------------------------------------- readLoop
\* Mutant of ReadLoopCheck: the loop has no ctx.Done case at its top and
\* relies on ReadMessage(ctx) to notice the cancellation.
ReadLoopCheckNoCancel ==
  /\ rl = "top"
  /\ rl' = "read"
  /\ UNCHANGED <<ctxDone, jobs, retry, wait, msg, nread, reads, dropped, units,
                 exited>>
  /\ UNCHANGED <<runVars, procVars, logVars, closeVars, cfgVars, srvVars, userVars, fifoVars>>

\* The select at the top of the loop: return on ctx.Done, else read.
ReadLoopCheck ==
  /\ rl = "top"
  /\ rl' = IF ctxDone THEN "returned" ELSE "read"
  /\ UNCHANGED <<ctxDone, jobs, retry, wait, msg, nread, reads, dropped, units,
                 exited>>
  /\ UNCHANGED <<runVars, procVars, logVars, closeVars, cfgVars, srvVars, userVars, fifoVars>>

\* Mutant of ReadError: readLoop returns on a failed read.
ReadErrorReturns ==
  /\ rl = "read"
  /\ wait' = backoff(retry)
  /\ rl' = "returned"
  /\ UNCHANGED <<ctxDone, jobs, retry, msg, nread, reads, dropped, units, exited>>
  /\ UNCHANGED <<runVars, procVars, logVars, closeVars, cfgVars, srvVars, userVars, fifoVars>>

\* ReadMessage returns an error: the back-off is computed from retry and
\* the wait begins.
ReadError ==
  /\ rl = "read"
  /\ wait' = backoff(retry)
  /\ rl' = "backoff"
  /\ UNCHANGED <<ctxDone, jobs, retry, msg, nread, reads, dropped, units, exited>>
  /\ UNCHANGED <<runVars, procVars, logVars, closeVars, cfgVars, srvVars, userVars, fifoVars>>

\* Mutant of ReadEmpty: there is no check for an empty Value, so the empty
\* payload goes on to the push.
ReadEmptyEnqueues ==
  /\ rl = "read"
  /\ retry' = 0
  /\ wait' = 0
  /\ rl' = "push"
  /\ UNCHANGED <<ctxDone, jobs, msg, nread, reads, dropped, units, exited>>
  /\ UNCHANGED <<runVars, procVars, logVars, closeVars, cfgVars, srvVars, userVars, fifoVars>>

\* Mutant of ReadEmpty: retry = 0 comes after the check for an empty Value,
\* so an empty read leaves the counter as it was.
ReadEmptyKeepsRetry ==
  /\ rl = "read"
  /\ rl' = "empty"
  /\ UNCHANGED <<ctxDone, jobs, retry, wait, msg, nread, reads, dropped, units,
                 exited>>
  /\ UNCHANGED <<runVars, procVars, logVars, closeVars, cfgVars, srvVars, userVars, fifoVars>>

\* ReadMessage returns a message with an empty Value: retry = 0, idle wait.
ReadEmpty ==
  /\ rl = "read"
  /\ retry' = 0
  /\ wait' = 0
  /\ rl' = "empty"
  /\ UNCHANGED <<ctxDone, jobs, msg, nread, reads, dropped, units, exited>>
  /\ UNCHANGED <<runVars, procVars, logVars, closeVars, cfgVars, srvVars, userVars, fifoVars>>

\* ReadMessage returns a message with a payload: retry = 0, then the push.
ReadPayload ==
  /\ rl = "read"
  /\ nread < MaxMessages
  /\ \E b \in Bodies :
       /\ msg' = [id |-> nread + 1, body |-> b]
       /\ reads' = reads \cup {[id |-> nread + 1, body |-> b]}
  /\ nread' = nread + 1
  /\ retry' = 0
  /\ wait' = 0
  /\ rl' = "push"
  /\ UNCHANGED <<ctxDone, jobs, dropped, units, exited>>
  /\ UNCHANGED <<runVars, procVars, logVars, closeVars, cfgVars, srvVars, userVars, fifoVars>>

\* w.reader.ReadMessage(ctx) returns: an error, an empty payload, or a message.
\* The reader's interface does not say which of them a call returns that was
\* under way when the context was cancelled, so all three stay possible.
\* Consecutive errors are capped at MaxRetry.
ReadMessage ==
  \/ /\ retry < MaxRetry
     /\ ReadError
  \/ ReadEmpty
  \/ ReadPayload

\* waitWithContext(ctx, d): the values its select can return.  The timer case
\* is always possible; the ctx.Done case once the context is cancelled.
waitWithContext == {TRUE} \cup (IF ctxDone THEN {FALSE} ELSE {})

\* Mutant of BackoffWait: readLoop gives up after three consecutive failed
\* reads.
BackoffWaitGivesUp ==
  /\ rl = "backoff"
  /\ \E ok \in waitWithContext :
       IF ok /\ retry < 3
         THEN /\ retry' = retry + 1
              /\ rl' = "top"
         ELSE /\ rl' = "returned"
              /\ UNCHANGED retry
  /\ UNCHANGED <<ctxDone, jobs, wait, msg, nread, reads, dropped, units, exited>>
  /\ UNCHANGED <<runVars, procVars, logVars, closeVars, cfgVars, srvVars, userVars, fifoVars>>

\* The back-off wait after a failed read, then retry++.
BackoffWait ==
  /\ rl = "backoff"
  /\ \E ok \in waitWithContext :
       IF ok THEN /\ retry' = retry + 1
                  /\ rl' = "top"
             ELSE /\ rl' = "returned"
                  /\ UNCHANGED retry
  /\ UNCHANGED <<ctxDone, jobs, wait, msg, nread, reads, dropped, units, exited>>
  /\ UNCHANGED <<runVars, procVars, logVars, closeVars, cfgVars, srvVars, userVars, fifoVars>>

\* The idle wait after an empty read.
IdleWait ==
  /\ rl = "empty"
  /\ \E ok \in waitWithContext :
       rl' = IF ok THEN "top" ELSE "returned"
  /\ UNCHANGED <<ctxDone, jobs, retry, wait, msg, nread, reads, dropped, units,
                 exited>>
  /\ UNCHANGED <<runVars, procVars, logVars, closeVars, cfgVars, srvVars, userVars, fifoVars>>

\* Mutant of PushJob: a plain blocking send, jobs <- msg.Value, with no
\* ctx.Done and no timeout case.
PushJobBlocking ==
  /\ rl = "push"
  /\ Len(jobs) < fields.jobQueueSize
  /\ jobs' = Append(jobs, msg)
  /\ rl' = "top"
  /\ msg' = NoMsg
  /\ UNCHANGED <<ctxDone, retry, wait, nread, reads, dropped, units, exited>>
  /\ UNCHANGED <<runVars, procVars, logVars, closeVars, cfgVars, srvVars, userVars, deq>>
  /\ enq' = IF jobs' # jobs THEN Append(enq, msg.id) ELSE enq

\* Mutant of PushJob: the send case does not wait for room in the buffer,
\* as with a queue that grows on demand.
PushJobUnbounded ==
  /\ rl = "push"
  /\ \/ /\ jobs' = Append(jobs, msg)
        /\ rl' = "top"
        /\ UNCHANGED dropped
     \/ /\ ctxDone
        /\ rl' = "returned"
        /\ UNCHANGED <<jobs, dropped>>
     \/ /\ Len(jobs) >= fields.jobQueueSize
        /\ ~ctxDone
        /\ dropped' = dropped \cup {msg}
        /\ rl' = "top"
        /\ UNCHANGED jobs
  /\ msg' = NoMsg
  /\ UNCHANGED <<ctxDone, retry, wait, nread, reads, units, exited>>
  /\ UNCHANGED <<runVars, procVars, logVars, closeVars, cfgVars, srvVars, userVars, deq>>
  /\ enq' = IF jobs' # jobs THEN Append(enq, msg.id) ELSE enq

\* Mutant of PushJob: the select has no time.After case.
PushJobNoTimeout ==
  /\ rl = "push"
  /\ \/ /\ Len(jobs) < fields.jobQueueSize
        /\ jobs' = Append(jobs, msg)
        /\ rl' = "top"
     \/ /\ ctxDone
        /\ rl' = "returned"
        /\ UNCHANGED jobs
  /\ msg' = NoMsg
  /\ UNCHANGED <<ctxDone, retry, wait, nread, reads, dropped, units, exited>>
  /\ UNCHANGED <<runVars, procVars, logVars, closeVars, cfgVars, srvVars, userVars, deq>>
  /\ enq' = IF jobs' # jobs THEN Append(enq, msg.id) ELSE enq

\* Mutant of PushJob: after the timeout the loop tries the push of the same
\* payload again instead of going on to the next read.
PushJobRetries ==
  /\ rl = "push"
  /\ \/ /\ Len(jobs) < fields.jobQueueSize
        /\ jobs' = Append(jobs, msg)
        /\ rl' = "top"
        /\ msg' = NoMsg
        /\ UNCHANGED dropped
     \/ /\ ctxDone
        /\ rl' = "returned"
        /\ msg' = NoMsg
        /\ UNCHANGED <<jobs, dropped>>
     \/ /\ Len(jobs) >= fields.jobQueueSize
        /\ ~ctxDone
        /\ dropped' = dropped \cup {msg}
        /\ rl' = "push"
        /\ UNCHANGED <<jobs, msg>>
  /\ UNCHANGED <<ctxDone, retry, wait, nread, reads, units, exited>>
  /\ UNCHANGED <<runVars, procVars, logVars, closeVars, cfgVars, srvVars, userVars, deq>>
  /\ enq' = IF jobs' # jobs THEN Append(enq, msg.id) ELSE enq

\* Mutant of PushJob: after a send readLoop still holds the payload, and
\* pushes it again.
PushJobKeepsCopy ==
  /\ rl = "push"
  /\ \/ /\ Len(jobs) < fields.jobQueueSize
        /\ jobs' = Append(jobs, msg)
        /\ rl' = "push"
        /\ UNCHANGED <<dropped, msg>>
     \/ /\ ctxDone
        /\ rl' = "returned"
        /\ msg' = NoMsg
        /\ UNCHANGED <<jobs, dropped>>
     \/ /\ Len(jobs) >= fields.jobQueueSize
        /\ ~ctxDone
        /\ dropped' = dropped \cup {msg}
        /\ rl' = "top"
        /\ msg' = NoMsg
        /\ UNCHANGED jobs
  /\ UNCHANGED <<ctxDone, retry, wait, nread, reads, units, exited>>
  /\ UNCHANGED <<runVars, procVars, logVars, closeVars, cfgVars, srvVars, userVars, deq>>
  /\ enq' = IF jobs' # jobs THEN Append(enq, msg.id) ELSE enq

\* The select that pushes the payload: send, ctx.Done, or the 100 ms timeout.
\* A select with several ready cases takes any of them; the timeout only
\* becomes ready while the select is blocked (buffer full, not cancelled).
PushJob ==
  /\ rl = "push"
  /\ \/ /\ Len(jobs) < fields.jobQueueSize
        /\ jobs' = Append(jobs, msg)
        /\ rl' = "top"
        /\ UNCHANGED dropped
     \/ /\ ctxDone
        /\ rl' = "returned"
        /\ UNCHANGED <<jobs, dropped>>
     \/ /\ Len(jobs) >= fields.jobQueueSize
        /\ ~ctxDone
        /\ dropped' = dropped \cup {msg}
        /\ rl' = "top"
        /\ UNCHANGED jobs
  /\ msg' = NoMsg
  /\ UNCHANGED <<ctxDone, retry, wait, nread, reads, units, exited>>
  /\ UNCHANGED <<runVars, procVars, logVars, closeVars, cfgVars, srvVars, userVars, deq>>
  /\ enq' = IF jobs' # jobs THEN Append(enq, msg.id) ELSE enq

\* ------------------------------------------------------------------ store
\* Whether a store call may return an error now: GetFollowers and AddToFeed
\* fail at any time, up to the number of failures of one run.
StoreErrs == IF nfail < MaxStoreErrors THEN BOOLEAN ELSE {FALSE}

\* ------------------------------------------------------------ processLoop
\* defer wg.Done() of the goroutine Run started for processLoop.
ProcessReturn(w) ==
  /\ wpc' = [wpc EXCEPT ![w] = "done"]
  /\ wg' = wg - 1
  /\ data' = [data EXCEPT ![w] = NoMsg]
  /\ post' = [post EXCEPT ![w] = ZeroPost]
  /\ followers' = [followers EXCEPT ![w] = <<>>]
  /\ idx' = [idx EXCEPT ![w] = 0]

\* Mutant of ProcessRecv: the buffer is a stack, the receive takes the
\* payload that was sent last.
ProcessRecvLIFO(w) ==
  /\ wpc[w] = "recv"
  /\ \/ /\ ctxDone
        /\ ProcessReturn(w)
        /\ UNCHANGED <<jobs, deq>>
     \/ /\ jobs # <<>>
        /\ data' = [data EXCEPT ![w] = jobs[Len(jobs)]]
        /\ jobs' = SubSeq(jobs, 1, Len(jobs) - 1)
        /\ deq' = Append(deq, jobs[Len(jobs)].id)
        /\ wpc' = [wpc EXCEPT ![w] = "handle"]
        /\ UNCHANGED <<wg, post, followers, idx>>
     \/ /\ jobs = <<>>
        /\ closeCount > 0
        /\ ProcessReturn(w)
        /\ UNCHANGED <<jobs, deq>>
  /\ UNCHANGED <<ctxDone, run, closeCount, sem, fwg, units, exited>>
  /\ UNCHANGED <<readVars, logVars, closeVars, cfgVars, srvVars, userVars, enq>>

\* Mutant of ProcessRecv: the receive reads the payload at the head of the
\* buffer and leaves it there, as a broadcast to every processLoop would.
ProcessRecvKeeps(w) ==
  /\ wpc[w] = "recv"
  /\ \/ /\ ctxDone
        /\ ProcessReturn(w)
        /\ UNCHANGED deq
     \/ /\ jobs # <<>>
        /\ data' = [data EXCEPT ![w] = Head(jobs)]
        /\ deq' = Append(deq, Head(jobs).id)
        /\ wpc' = [wpc EXCEPT ![w] = "handle"]
        /\ UNCHANGED <<wg, post, followers, idx>>
     \/ /\ jobs = <<>>
        /\ closeCount > 0
        /\ ProcessReturn(w)
        /\ UNCHANGED deq
  /\ UNCHANGED <<ctxDone, run, closeCount, jobs, sem, fwg, units, exited>>
  /\ UNCHANGED <<readVars, logVars, closeVars, cfgVars, srvVars, userVars, enq>>

\* The select at the top of processLoop: ctx.Done, a payload, or the closed
\* and drained channel.  With several cases ready any of them is taken.
ProcessRecv(w) ==
  /\ wpc[w] = "recv"
  /\ \/ /\ ctxDone
        /\ ProcessReturn(w)
        /\ UNCHANGED jobs
     \/ /\ jobs # <<>>
        /\ data' = [data EXCEPT ![w] = Head(jobs)]
        /\ jobs' = Tail(jobs)
        /\ wpc' = [wpc EXCEPT ![w] = "handle"]
        /\ UNCHANGED <<wg, post, followers, idx>>
     \/ /\ jobs = <<>>
        /\ closeCount > 0
        /\ ProcessReturn(w)
        /\ UNCHANGED jobs
  /\ UNCHANGED <<ctxDone, run, closeCount, sem, fwg, units, exited>>
  /\ UNCHANGED <<readVars, logVars, closeVars, cfgVars, srvVars, userVars, enq>>
  /\ deq' = IF jobs' # jobs THEN Append(deq, Head(jobs).id) ELSE deq

\* Mutant of ProcessHandle: the error of json.Unmarshal is logged but the
\* loop does not continue, so the zero Post goes on to GetFollowers.
ProcessHandleIgnoreDecodeErr(w) ==
  /\ wpc[w] = "handle"
  /\ LET d == Unmarshal(data[w]) IN
       \E err \in StoreErrs :
         /\ lookups' = lookups \cup {[post |-> d.post, err |-> err]}
         /\ nfail' = IF err THEN nfail + 1 ELSE nfail
         /\ IF err
              THEN /\ wpc' = [wpc EXCEPT ![w] = "recv"]
                   /\ UNCHANGED <<post, followers, idx, sem, fwg>>
              ELSE LET F == Followers(d.post.AuthorID) IN
                   /\ post' = [post EXCEPT ![w] = d.post]
                   /\ followers' = [followers EXCEPT ![w] = F]
                   /\ idx' = [idx EXCEPT ![w] = 1]
                   /\ sem' = [sem EXCEPT ![w] = 0]
                   /\ fwg' = [fwg EXCEPT ![w] = 0]
                   /\ wpc' = [wpc EXCEPT ![w] =
                                IF Len(F) = 0 THEN "wait" ELSE "check"]
  /\ data' = [data EXCEPT ![w] = NoMsg]
  /\ UNCHANGED <<ctxDone, jobs, units, feedCalls, exited>>
  /\ UNCHANGED <<runVars, readVars, closeVars, cfgVars, srvVars, userVars, fifoVars>>

\* Mutant of ProcessHandle: the error of GetFollowers is logged but the loop
\* does not continue, so the fan-out runs over the list that came with it.
ProcessHandleIgnoreLookupErr(w) ==
  /\ wpc[w] = "handle"
  /\ LET d == Unmarshal(data[w]) IN
       IF d.err
         THEN /\ wpc' = [wpc EXCEPT ![w] = "recv"]
              /\ UNCHANGED <<post, followers, idx, sem, fwg, lookups, nfail>>
         ELSE \E err \in StoreErrs :
                /\ lookups' = lookups \cup {[post |-> d.post, err |-> err]}
                /\ nfail' = IF err THEN nfail + 1 ELSE nfail
                /\ LET F == Followers(d.post.AuthorID) IN
                     /\ post' = [post EXCEPT ![w] = d.post]
                     /\ followers' = [followers EXCEPT ![w] = F]
                     /\ idx' = [idx EXCEPT ![w] = 1]
                     /\ sem' = [sem EXCEPT ![w] = 0]
                     /\ fwg' = [fwg EXCEPT ![w] = 0]
                     /\ wpc' = [wpc EXCEPT ![w] =
                                  IF Len(F) = 0 THEN "wait" ELSE "check"]
  /\ data' = [data EXCEPT ![w] = NoMsg]
  /\ UNCHANGED <<ctxDone, jobs, units, feedCalls, exited>>
  /\ UNCHANGED <<runVars, readVars, closeVars, cfgVars, srvVars, userVars, fifoVars>>

\* json.Unmarshal and GetFollowers: either error skips the payload; otherwise
\* a fresh fanoutWG and semaphore are made and the range loop starts.
ProcessHandle(w) ==
  /\ wpc[w] = "handle"
  /\ LET d == Unmarshal(data[w]) IN
       IF d.err
         THEN /\ wpc' = [wpc EXCEPT ![w] = "recv"]
              /\ UNCHANGED <<post, followers, idx, sem, fwg, lookups, nfail>>
         ELSE \E err \in StoreErrs :
                /\ lookups' = lookups \cup {[post |-> d.post, err |-> err]}
                /\ nfail' = IF err THEN nfail + 1 ELSE nfail
                /\ IF err
                     THEN /\ wpc' = [wpc EXCEPT ![w] = "recv"]
                          /\ UNCHANGED <<post, followers, idx, sem, fwg>>
                     ELSE LET F == Followers(d.post.AuthorID) IN
                          /\ post' = [post EXCEPT ![w] = d.post]
                          /\ followers' = [followers EXCEPT ![w] = F]
                          /\ idx' = [idx EXCEPT ![w] = 1]
                          /\ sem' = [sem EXCEPT ![w] = 0]
                          /\ fwg' = [fwg EXCEPT ![w] = 0]
                          /\ wpc' = [wpc EXCEPT ![w] =
                                       IF Len(F) = 0 THEN "wait" ELSE "check"]
  /\ data' = [data EXCEPT ![w] = NoMsg]
  /\ UNCHANGED <<ctxDone, jobs, units, feedCalls, exited>>
  /\ UNCHANGED <<runVars, readVars, closeVars, cfgVars, srvVars, userVars, fifoVars>>

\* Mutant of FanoutCheck: the range loop has no ctx.Done case.
FanoutCheckIgnoresCancel(w) ==
  /\ wpc[w] = "check"
  /\ fwg' = [fwg EXCEPT ![w] = fwg[w] + 1]
  /\ wpc' = [wpc EXCEPT ![w] = "acquire"]
  /\ UNCHANGED <<wg, data, post, followers, idx>>
  /\ UNCHANGED <<ctxDone, run, closeCount, jobs, sem, units, exited>>
  /\ UNCHANGED <<readVars, logVars, closeVars, cfgVars, srvVars, userVars, fifoVars>>

\* Mutant of FanoutCheck: the range loop is left as soon as an AddToFeed of
\* the post has failed, as with a fail-fast error group.
FanoutCheckStopOnError(w) ==
  /\ wpc[w] = "check"
  /\ IF ctxDone
       THEN /\ ProcessReturn(w)
            /\ UNCHANGED fwg
       ELSE IF \E c \in feedCalls : c.post = post[w] /\ ~c.ok
         THEN /\ wpc' = [wpc EXCEPT ![w] = "wait"]
              /\ UNCHANGED <<wg, data, post, followers, idx, fwg>>
         ELSE /\ fwg' = [fwg EXCEPT ![w] = fwg[w] + 1]
              /\ wpc' = [wpc EXCEPT ![w] = "acquire"]
              /\ UNCHANGED <<wg, data, post, followers, idx>>
  /\ UNCHANGED <<ctxDone, run, closeCount, jobs, sem, units, exited>>
  /\ UNCHANGED <<readVars, logVars, closeVars, cfgVars, srvVars, userVars, fifoVars>>

\* The select inside the range loop: return on ctx.Done, else fanoutWG.Add(1).
FanoutCheck(w) ==
  /\ wpc[w] = "check"
  /\ IF ctxDone
       THEN /\ ProcessReturn(w)
            /\ UNCHANGED fwg
       ELSE /\ fwg' = [fwg EXCEPT ![w] = fwg[w] + 1]
            /\ wpc' = [wpc EXCEPT ![w] = "acquire"]
            /\ UNCHANGED <<wg, data, post, followers, idx>>
  /\ UNCHANGED <<ctxDone, run, closeCount, jobs, sem, units, exited>>
  /\ UNCHANGED <<readVars, logVars, closeVars, cfgVars, srvVars, userVars, fifoVars>>

\* Mutant of FanoutAcquire: the closure reads the loop variable uid instead
\* of taking it as an argument, and sees the last follower of the list.
FanoutAcquireCapturedUid(w) ==
  /\ wpc[w] = "acquire"
  /\ sem[w] < fanoutLimit
  /\ sem' = [sem EXCEPT ![w] = sem[w] + 1]
  /\ units' = units \cup {[w |-> w, post |-> post[w],
                           uid |-> followers[w][Len(followers[w])], k |-> idx[w]]}
  /\ idx' = [idx EXCEPT ![w] = idx[w] + 1]
  /\ wpc' = [wpc EXCEPT ![w] =
               IF idx[w] + 1 > Len(followers[w]) THEN "wait" ELSE "check"]
  /\ UNCHANGED <<ctxDone, jobs, data, post, followers, fwg, exited>>
  /\ UNCHANGED <<runVars, readVars, logVars, closeVars, cfgVars, srvVars, userVars, fifoVars>>

\* Mutant of FanoutAcquire: the range loop stops one follower early.
FanoutAcquireOffByOne(w) ==
  /\ wpc[w] = "acquire"
  /\ sem[w] < fanoutLimit
  /\ sem' = [sem EXCEPT ![w] = sem[w] + 1]
  /\ units' = units \cup {[w |-> w, post |-> post[w],
                           uid |-> followers[w][idx[w]], k |-> idx[w]]}
  /\ idx' = [idx EXCEPT ![w] = idx[w] + 1]
  /\ wpc' = [wpc EXCEPT ![w] =
               IF idx[w] + 1 >= Len(followers[w]) THEN "wait" ELSE "check"]
  /\ UNCHANGED <<ctxDone, jobs, data, post, followers, fwg, exited>>
  /\ UNCHANGED <<runVars, readVars, logVars, closeVars, cfgVars, srvVars, userVars, fifoVars>>

\* Mutant of FanoutAcquire: the unit is launched without taking a permit
\* first (the permit is taken inside the goroutine).
FanoutAcquireNoPermit(w) ==
  /\ wpc[w] = "acquire"
  /\ sem' = [sem EXCEPT ![w] = sem[w] + 1]
  /\ units' = units \cup {[w |-> w, post |-> post[w],
                           uid |-> followers[w][idx[w]], k |-> idx[w]]}
  /\ idx' = [idx EXCEPT ![w] = idx[w] + 1]
  /\ wpc' = [wpc EXCEPT ![w] =
               IF idx[w] + 1 > Len(followers[w]) THEN "wait" ELSE "check"]
  /\ UNCHANGED <<ctxDone, jobs, data, post, followers, fwg, exited>>
  /\ UNCHANGED <<runVars, readVars, logVars, closeVars, cfgVars, srvVars, userVars, fifoVars>>

\* Mutant of FanoutAcquire: the semaphore is one channel of the Worker that
\* all processLoops send on, so the permits of every post count together.
FanoutAcquireSharedPermits(w) ==
  /\ wpc[w] = "acquire"
  /\ Cardinality(units) < fanoutLimit
  /\ sem' = [sem EXCEPT ![w] = sem[w] + 1]
  /\ units' = units \cup {[w |-> w, post |-> post[w],
                           uid |-> followers[w][idx[w]], k |-> idx[w]]}
  /\ idx' = [idx EXCEPT ![w] = idx[w] + 1]
  /\ wpc' = [wpc EXCEPT ![w] =
               IF idx[w] + 1 > Len(followers[w]) THEN "wait" ELSE "check"]
  /\ UNCHANGED <<ctxDone, jobs, data, post, followers, fwg, exited>>
  /\ UNCHANGED <<runVars, readVars, logVars, closeVars, cfgVars, srvVars, userVars, fifoVars>>

\* Mutant of FanoutAcquire: the range loop keeps a set of the followers it
\* has served and launches nothing for one it has seen before.
FanoutAcquireDedup(w) ==
  /\ wpc[w] = "acquire"
  /\ IF \E k \in 1..(idx[w] - 1) : followers[w][k] = followers[w][idx[w]]
       THEN /\ fwg' = [fwg EXCEPT ![w] = fwg[w] - 1]
            /\ UNCHANGED <<sem, units>>
       ELSE /\ sem[w] < fanoutLimit
            /\ sem' = [sem EXCEPT ![w] = sem[w] + 1]
            /\ units' = units \cup {[w |-> w, post |-> post[w],
                                     uid |-> followers[w][idx[w]], k |-> idx[w]]}
            /\ UNCHANGED fwg
  /\ idx' = [idx EXCEPT ![w] = idx[w] + 1]
  /\ wpc' = [wpc EXCEPT ![w] =
               IF idx[w] + 1 > Len(followers[w]) THEN "wait" ELSE "check"]
  /\ UNCHANGED <<ctxDone, jobs, data, post, followers, exited>>
  /\ UNCHANGED <<runVars, readVars, logVars, closeVars, cfgVars, srvVars, userVars, fifoVars>>

\* semaphore <- struct{}{} and the go statement that launches the unit.
FanoutAcquire(w) ==
  /\ wpc[w] = "acquire"
  /\ sem[w] < fanoutLimit
  /\ sem' = [sem EXCEPT ![w] = sem[w] + 1]
  /\ units' = units \cup {[w |-> w, post |-> post[w],
                           uid |-> followers[w][idx[w]], k |-> idx[w]]}
  /\ idx' = [idx EXCEPT ![w] = idx[w] + 1]
  /\ wpc' = [wpc EXCEPT ![w] =
               IF idx[w] + 1 > Len(followers[w]) THEN "wait" ELSE "check"]
  /\ UNCHANGED <<ctxDone, jobs, data, post, followers, fwg, exited>>
  /\ UNCHANGED <<runVars, readVars, logVars, closeVars, cfgVars, srvVars, userVars, fifoVars>>

\* Mutant of FanoutWait: processLoop does not call fanoutWG.Wait() and goes
\* on to the next payload while units of the post are still running.
FanoutWaitNoJoin(w) ==
  /\ wpc[w] = "wait"
  /\ wpc' = [wpc EXCEPT ![w] = "recv"]
  /\ post' = [post EXCEPT ![w] = ZeroPost]
  /\ followers' = [followers EXCEPT ![w] = <<>>]
  /\ idx' = [idx EXCEPT ![w] = 0]
  /\ UNCHANGED <<ctxDone, jobs, data, sem, fwg, units, exited>>
  /\ UNCHANGED <<runVars, readVars, logVars, closeVars, cfgVars, srvVars, userVars, fifoVars>>

\* fanoutWG.Wait() after the range loop, then the next iteration.
FanoutWait(w) ==
  /\ wpc[w] = "wait"
  /\ fwg[w] = 0
  /\ wpc' = [wpc EXCEPT ![w] = "recv"]
  /\ post' = [post EXCEPT ![w] = ZeroPost]
  /\ followers' = [followers EXCEPT ![w] = <<>>]
  /\ idx' = [idx EXCEPT ![w] = 0]
  /\ UNCHANGED <<ctxDone, jobs, data, sem, fwg, units, exited>>
  /\ UNCHANGED <<runVars, readVars, logVars, closeVars, cfgVars, srvVars, userVars, fifoVars>>

\* Mutant of AddToFeed: the permit is released after the call on the success
\* path only, not by a defer; a failed call returns with the permit held.
AddToFeedKeepsPermitOnError(u) ==
  /\ u \in units
  /\ ~exited
  /\ \E err \in StoreErrs :
       /\ feedCalls' = feedCalls \cup
            {[post |-> u.post, uid |-> u.uid, k |-> u.k, ok |-> ~err]}
       /\ nfail' = IF err THEN nfail + 1 ELSE nfail
       /\ sem' = [sem EXCEPT ![u.w] = IF err THEN sem[u.w] ELSE sem[u.w] - 1]
  /\ fwg' = [fwg EXCEPT ![u.w] = fwg[u.w] - 1]
  /\ units' = units \ {u}
  /\ UNCHANGED <<ctxDone, jobs, wpc, data, post, followers, idx, lookups, exited>>
  /\ UNCHANGED <<runVars, readVars, closeVars, cfgVars, srvVars, userVars, fifoVars>>

\* The goroutine of one follower: AddToFeed (it may fail), then the deferred
\* release of the permit and fanoutWG.Done().
AddToFeed(u) ==
  /\ u \in units
  /\ ~exited
  /\ \E err \in StoreErrs :
       /\ feedCalls' = feedCalls \cup
            {[post |-> u.post, uid |-> u.uid, k |-> u.k, ok |-> ~err]}
       /\ nfail' = IF err THEN nfail + 1 ELSE nfail
  /\ sem' = [sem EXCEPT ![u.w] = sem[u.w] - 1]
  /\ fwg' = [fwg EXCEPT ![u.w] = fwg[u.w] - 1]
  /\ units' = units \ {u}
  /\ UNCHANGED <<ctxDone, jobs, wpc, data, post, followers, idx, lookups, exited>>
  /\ UNCHANGED <<runVars, readVars, closeVars, cfgVars, srvVars, userVars, fifoVars>>

\* ------------------------------------------------------- Close and main
\* Mutant of Close: the store is closed first, then the reader, whose error
\* is returned.
CloseStoreFirst ==
  /\ run = "returned"
  /\ closeRet = "none"
  /\ ~exited
  /\ readerClosed' = readerClosed + 1
  /\ storeClosed' = storeClosed + 1
  /\ \E err \in BOOLEAN :
       /\ closeRet' = IF err THEN "err" ELSE "nil"
       /\ closeLog' = <<[call |-> "store", err |-> FALSE],
                        [call |-> "reader", err |-> err]>>
  /\ UNCHANGED <<ctxDone, jobs, units, exited>>
  /\ UNCHANGED <<runVars, readVars, procVars, logVars, cfgVars, srvVars, userVars, fifoVars>>

\* Worker.Close, called by main and by the tests after Run has returned:
\* reader.Close(), and store.Close() unless the reader's Close failed.
Close ==
  /\ run = "returned"
  /\ closeRet = "none"
  /\ ~exited
  /\ readerClosed' = readerClosed + 1
  /\ \E err \in BOOLEAN :
       IF err THEN /\ closeRet' = "err"
                   /\ closeLog' = <<[call |-> "reader", err |-> TRUE]>>
                   /\ UNCHANGED storeClosed
              ELSE /\ storeClosed' = storeClosed + 1
                   /\ closeLog' = <<[call |-> "reader", err |-> FALSE],
                                    [call |-> "store", err |-> FALSE]>>
                   /\ closeRet' = "nil"
  /\ UNCHANGED <<ctxDone, jobs, units, exited>>
  /\ UNCHANGED <<runVars, readVars, procVars, logVars, cfgVars, srvVars, userVars, fifoVars>>

\* main returns after Run (and Close): the process ends and with it every
\* goroutine that is still running.
Exit ==
  /\ run = "returned"
  /\ ~exited
  /\ exited' = TRUE
  /\ UNCHANGED <<ctxDone, jobs, units>>
  /\ UNCHANGED <<runVars, readVars, procVars, logVars, closeVars, cfgVars,
                 srvVars, userVars, fifoVars>>

\* ---------------------------------------------------------- specification
readLoop == ReadLoopCheck \/ ReadMessage \/ BackoffWait \/ IdleWait \/ PushJob

processLoop(w) ==
  ProcessRecv(w) \/ ProcessHandle(w) \/ FanoutCheck(w) \/ FanoutAcquire(w)
    \/ FanoutWait(w)

Run == RunStart \/ RunClose \/ RunReturn

Next ==
  \/ Cancel
  \/ Run
  \/ readLoop
  \/ \E w \in DOMAIN wpc : processLoop(w)
  \/ \E u \in units : AddToFeed(u)
  \/ Close
  \/ Exit

Spec == Init /\ [][Next]_vars

\* Fairness of the scheduler: every goroutine that can take a step eventually
\* takes one; ReadMessage is only known to return once the context is
\* cancelled; Cancel, Close and Exit are up to the environment.
readLoopFair ==
  ReadLoopCheck \/ (ctxDone /\ ReadMessage) \/ BackoffWait \/ IdleWait \/ PushJob

LiveSpec ==
  /\ Spec
  /\ WF_vars(Run)
  /\ WF_vars(readLoopFair)
  /\ \A w \in Workers : WF_vars(processLoop(w))
  /\ \A w \in Workers : WF_vars(\E u \in units : u.w = w /\ AddToFeed(u))

\* Fairness of readLoop's goroutine alone: the processLoops and the units
\* may stand still for ever.
ReadLiveSpec == Spec /\ WF_vars(readLoopFair)

\* The worker built by New with a pool of one to workerCount processLoops
\* and a jobs channel of one to MaxQueue places.
FifoInit ==
  /\ NoServer
  /\ ctxDone = FALSE
  /\ run = "new"
  /\ jobs = <<>>
  /\ closeCount = 0
  /\ wg = 0
  /\ rl = "idle"
  /\ retry = 0
  /\ wait = 0
  /\ msg = NoMsg
  /\ nread = 0
  /\ reads = {}
  /\ dropped = {}
  /\ \E c \in 1..workerCount, q \in 1..MaxQueue :
       /\ args = [path |-> "New", workerCount |-> c, jobQueueSize |-> q,
                  numCPU |-> 1]
       /\ fields = New(c, q, 1)
  /\ built = "built"
  /\ wpc = [w \in 1..fields.workerCount |-> "idle"]
  /\ data = [w \in 1..fields.workerCount |-> NoMsg]
  /\ post = [w \in 1..fields.workerCount |-> ZeroPost]
  /\ followers = [w \in 1..fields.workerCount |-> <<>>]
  /\ idx = [w \in 1..fields.workerCount |-> 0]
  /\ sem = [w \in 1..fields.workerCount |-> 0]
  /\ fwg = [w \in 1..fields.workerCount |-> 0]
  /\ units = {}
  /\ lookups = {}
  /\ feedCalls = {}
  /\ nfail = 0
  /\ readerClosed = 0
  /\ storeClosed = 0
  /\ closeRet = "none"
  /\ closeLog = <<>>
  /\ enq = <<>>
  /\ deq = <<>>
  /\ NoUsers
  /\ exited = FALSE

FifoSpec == FifoInit /\ [][Next]_vars

\* readLoop on its own, after any number of consecutive failed reads: the
\* pool is idle, and reads may fail up to MaxBackoffRetry times in a row.
BackoffInit ==
  /\ NoServer
  /\ ctxDone = FALSE
  /\ run = "running"
  /\ jobs = <<>>
  /\ closeCount = 0
  /\ wg = workerCount
  /\ rl = "top"
  /\ retry \in 0..MaxBackoffRetry
  /\ wait = IF retry = 0 THEN 0 ELSE backoff(retry - 1)
  /\ msg = NoMsg
  /\ nread = 0
  /\ reads = {}
  /\ dropped = {}
  /\ wpc = [w \in Workers |-> "recv"]
  /\ data = [w \in Workers |-> NoMsg]
  /\ post = [w \in Workers |-> ZeroPost]
  /\ followers = [w \in Workers |-> <<>>]
  /\ idx = [w \in Workers |-> 0]
  /\ sem = [w \in Workers |-> 0]
  /\ fwg = [w \in Workers |-> 0]
  /\ units = {}
  /\ lookups = {}
  /\ feedCalls = {}
  /\ nfail = 0
  /\ readerClosed = 0
  /\ storeClosed = 0
  /\ closeRet = "none"
  /\ closeLog = <<>>
  /\ enq = <<>>
  /\ deq = <<>>
  /\ NoUsers
  /\ args = [path |-> "New", workerCount |-> workerCount,
             jobQueueSize |-> jobQueueSize, numCPU |-> 1]
  /\ fields = New(workerCount, jobQueueSize, 1)
  /\ built = "normalised"
  /\ exited = FALSE

BackoffNext ==
  \/ Cancel
  \/ ReadLoopCheck
  \/ /\ retry < MaxBackoffRetry
     /\ ReadError
  \/ ReadEmpty
  \/ ReadPayload
  \/ BackoffWait
  \/ IdleWait
  \/ PushJob

BackoffSpec == BackoffInit /\ [][BackoffNext]_vars

\* The ways a Worker is built before Run: worker.New with any sizes, or the
\* struct literal of the tests, which leaves both sizes unset.
ConfigArgs ==
  {[path |-> "New", workerCount |-> c, jobQueueSize |-> q, numCPU |-> n] :
     c \in (0 - MaxConfig)..MaxConfig, q \in (0 - MaxConfig)..MaxConfig,
     n \in 1..MaxCPU}
  \cup {[path |-> "literal", workerCount |-> 0, jobQueueSize |-> 0, numCPU |-> n] :
          n \in 1..MaxCPU}

ConfigInit ==
  /\ NoServer
  /\ ctxDone = FALSE
  /\ run = "new"
  /\ jobs = <<>>
  /\ closeCount = 0
  /\ wg = 0
  /\ rl = "idle"
  /\ retry = 0
  /\ wait = 0
  /\ msg = NoMsg
  /\ nread = 0
  /\ reads = {}
  /\ dropped = {}
  /\ wpc = <<>>
  /\ data = <<>>
  /\ post = <<>>
  /\ followers = <<>>
  /\ idx = <<>>
  /\ sem = <<>>
  /\ fwg = <<>>
  /\ units = {}
  /\ lookups = {}
  /\ feedCalls = {}
  /\ nfail = 0
  /\ readerClosed = 0
  /\ storeClosed = 0
  /\ closeRet = "none"
  /\ closeLog = <<>>
  /\ enq = <<>>
  /\ deq = <<>>
  /\ NoUsers
  /\ args \in ConfigArgs
  /\ fields = [workerCount |-> 0, jobQueueSize |-> 0]
  /\ built = "args"
  /\ exited = FALSE

\* w := worker.New(st, kafkaReader, workerCount, jobQueueSize)
NewWorker ==
  /\ built = "args"
  /\ args.path = "New"
  /\ fields' = New(args.workerCount, args.jobQueueSize, args.numCPU)
  /\ built' = "built"
  /\ UNCHANGED <<ctxDone, jobs, units, args, exited>>
  /\ UNCHANGED <<runVars, readVars, procVars, logVars, closeVars, srvVars, userVars, fifoVars>>

\* worker := &Worker{store: mockStore, reader: mockKafka}
LiteralWorker ==
  /\ built = "args"
  /\ args.path = "literal"
  /\ fields' = [workerCount |-> args.workerCount,
                jobQueueSize |-> args.jobQueueSize]
  /\ built' = "built"
  /\ UNCHANGED <<ctxDone, jobs, units, args, exited>>
  /\ UNCHANGED <<runVars, readVars, procVars, logVars, closeVars, srvVars, userVars, fifoVars>>

ConfigNext == NewWorker \/ LiteralWorker \/ RunStart

ConfigSpec == ConfigInit /\ [][ConfigNext]_vars

\* ----------------------------------------------------------------- server
workerVars == <<ctxDone, jobs, units, exited, runVars, readVars, procVars,
                logVars, closeVars, cfgVars, fifoVars, userVars>>

\* The server process: no worker runs in it.
ServerInit ==
  /\ hpc = [r \in Requests |-> "decode"]
  /\ hin \in [Requests -> RequestInputs]
  /\ status = [r \in Requests |-> 0]
  /\ topic = {}
  /\ writeFailed = {}
  /\ addPostCalls = {}
  /\ postsTable = {}
  /\ ctxDone = FALSE
  /\ run = "new"
  /\ jobs = <<>>
  /\ closeCount = 0
  /\ wg = 0
  /\ rl = "idle"
  /\ retry = 0
  /\ wait = 0
  /\ msg = NoMsg
  /\ nread = 0
  /\ reads = {}
  /\ dropped = {}
  /\ wpc = <<>>
  /\ data = <<>>
  /\ post = <<>>
  /\ followers = <<>>
  /\ idx = <<>>
  /\ sem = <<>>
  /\ fwg = <<>>
  /\ units = {}
  /\ lookups = {}
  /\ feedCalls = {}
  /\ nfail = 0
  /\ readerClosed = 0
  /\ storeClosed = 0
  /\ closeRet = "none"
  /\ closeLog = <<>>
  /\ enq = <<>>
  /\ deq = <<>>
  /\ NoUsers
  /\ args = [path |-> "New", workerCount |-> 0, jobQueueSize |-> 0, numCPU |-> 1]
  /\ fields = [workerCount |-> 0, jobQueueSize |-> 0]
  /\ built = "args"
  /\ exited = FALSE

\* http.Error(w, ..., code) and return.
Respond(r, code) ==
  /\ status' = [status EXCEPT ![r] = code]
  /\ hpc' = [hpc EXCEPT ![r] = "done"]

\* json.NewDecoder(r.Body).Decode(&body): 400 on a body that is not JSON.
HandlerDecode(r) ==
  /\ hpc[r] = "decode"
  /\ IF hin[r].json
       THEN /\ hpc' = [hpc EXCEPT ![r] = "auth"]
            /\ UNCHANGED status
       ELSE Respond(r, 400)
  /\ UNCHANGED <<hin, topic, writeFailed, addPostCalls, postsTable>>
  /\ UNCHANGED workerVars

\* middleware.UserIDFromContext: 401 without a user id.
HandlerAuth(r) ==
  /\ hpc[r] = "auth"
  /\ IF hin[r].auth
       THEN /\ hpc' = [hpc EXCEPT ![r] = "validate"]
            /\ UNCHANGED status
       ELSE Respond(r, 401)
  /\ UNCHANGED <<hin, topic, writeFailed, addPostCalls, postsTable>>
  /\ UNCHANGED workerVars

\* The length check of the body (1..1000), then the Post with a fresh ID
\* is built and marshalled.
HandlerValidate(r) ==
  /\ hpc[r] = "validate"
  /\ IF hin[r].len = 0 \/ hin[r].len > 1000
       THEN Respond(r, 400)
       ELSE /\ hpc' = [hpc EXCEPT ![r] = "write"]
            /\ UNCHANGED status
  /\ UNCHANGED <<hin, topic, writeFailed, addPostCalls, postsTable>>
  /\ UNCHANGED workerVars

\* Mutant of HandlerWrite: the error of WriteMessages is logged and the
\* handler goes on to save the post.
HandlerWriteIgnoresError(r) ==
  /\ hpc[r] = "write"
  /\ \E err \in BOOLEAN :
       IF err
         THEN /\ writeFailed' = writeFailed \cup {r}
              /\ UNCHANGED topic
         ELSE /\ topic' = topic \cup {r}
              /\ UNCHANGED writeFailed
  /\ hpc' = [hpc EXCEPT ![r] = "save"]
  /\ UNCHANGED <<hin, status, addPostCalls, postsTable>>
  /\ UNCHANGED workerVars

\* s.kafkaWriter.WriteMessages(msg): 500 on an error, else the event of the
\* post (its ID is the request's) is on the topic.
HandlerWrite(r) ==
  /\ hpc[r] = "write"
  /\ \E err \in BOOLEAN :
       IF err
         THEN /\ writeFailed' = writeFailed \cup {r}
              /\ Respond(r, 500)
              /\ UNCHANGED topic
         ELSE /\ topic' = topic \cup {r}
              /\ hpc' = [hpc EXCEPT ![r] = "save"]
              /\ UNCHANGED <<status, writeFailed>>
  /\ UNCHANGED <<hin, addPostCalls, postsTable>>
  /\ UNCHANGED workerVars

\* s.store.AddPost(post): 500 on an error, else the post is saved and the
\* handler answers 200 with the post.
HandlerSave(r) ==
  /\ hpc[r] = "save"
  /\ addPostCalls' = addPostCalls \cup {r}
  /\ \E err \in BOOLEAN :
       IF err
         THEN /\ Respond(r, 500)
              /\ UNCHANGED postsTable
         ELSE /\ postsTable' = postsTable \cup {r}
              /\ Respond(r, 200)
  /\ UNCHANGED <<hin, topic, writeFailed>>
  /\ UNCHANGED workerVars

createPostHandler(r) ==
  \/ HandlerDecode(r)
  \/ HandlerAuth(r)
  \/ HandlerValidate(r)
  \/ HandlerWrite(r)
  \/ HandlerSave(r)

ServerNext == \E r \in Requests : createPostHandler(r)

ServerSpec == ServerInit /\ [][ServerNext]_vars

\* ------------------------------------------------------------ CreateUser
\* The variables the callers of CreateUser leave alone.
otherVars == <<ctxDone, jobs, units, exited, runVars, readVars, procVars,
               logVars, closeVars, cfgVars, fifoVars, srvVars>>

\* No worker has been built.
NoWorker ==
  /\ ctxDone = FALSE
  /\ run = "new"
  /\ jobs = <<>>
  /\ closeCount = 0
  /\ wg = 0
  /\ rl = "idle"
  /\ retry = 0
  /\ wait = 0
  /\ msg = NoMsg
  /\ nread = 0
  /\ reads = {}
  /\ dropped = {}
  /\ wpc = <<>>
  /\ data = <<>>
  /\ post = <<>>
  /\ followers = <<>>
  /\ idx = <<>>
  /\ sem = <<>>
  /\ fwg = <<>>
  /\ units = {}
  /\ lookups = {}
  /\ feedCalls = {}
  /\ nfail = 0
  /\ readerClosed = 0
  /\ storeClosed = 0
  /\ closeRet = "none"
  /\ closeLog = <<>>
  /\ enq = <<>>
  /\ deq = <<>>
  /\ args = [path |-> "New", workerCount |-> 0, jobQueueSize |-> 0, numCPU |-> 1]
  /\ fields = [workerCount |-> 0, jobQueueSize |-> 0]
  /\ built = "args"
  /\ exited = FALSE

\* Every caller is about to look the username up, in createUserHandler or,
\* for a direct call, in Store.CreateUser; the username has no row yet.
UserInit ==
  /\ NoWorker
  /\ NoServer
  /\ upc \in [Callers -> {"handler", "create"}]
  /\ uret = [c \in Callers |-> 0]
  /\ byUsername = 0
  /\ users = {}

\* Store.GetUserIDByUsername: the user_id of the row, the empty string and
\* no error if there is no row, or the error of the query.
GetUserIDByUsername ==
  {[id |-> byUsername, err |-> FALSE], [id |-> 0, err |-> TRUE]}

\* createUserHandler from its lookup on: 500 on a query error, the existing
\* id if there is one, else the call of CreateUser.
HandlerLookup(c) ==
  /\ upc[c] = "handler"
  /\ \E r \in GetUserIDByUsername :
       IF r.err THEN /\ upc' = [upc EXCEPT ![c] = "failed"]
                     /\ UNCHANGED uret
       ELSE IF r.id # 0 THEN /\ upc' = [upc EXCEPT ![c] = "found"]
                             /\ uret' = [uret EXCEPT ![c] = r.id]
       ELSE /\ upc' = [upc EXCEPT ![c] = "create"]
            /\ UNCHANGED uret
  /\ UNCHANGED <<byUsername, users>>
  /\ UNCHANGED otherVars

\* CreateUser's first lookup: the error, the existing id, or on to the insert.
CreateUserLookup(c) ==
  /\ upc[c] = "create"
  /\ \E r \in GetUserIDByUsername :
       IF r.err THEN /\ upc' = [upc EXCEPT ![c] = "failed"]
                     /\ UNCHANGED uret
       ELSE IF r.id # 0 THEN /\ upc' = [upc EXCEPT ![c] = "existing"]
                             /\ uret' = [uret EXCEPT ![c] = r.id]
       ELSE /\ upc' = [upc EXCEPT ![c] = "cas"]
            /\ UNCHANGED uret
  /\ UNCHANGED <<byUsername, users>>
  /\ UNCHANGED otherVars

\* Mutant of CreateUserCAS: the insert has no IF NOT EXISTS and always
\* writes the row.
CreateUserPlainInsert(c) ==
  /\ upc[c] = "cas"
  /\ \/ /\ upc' = [upc EXCEPT ![c] = "failed"]
        /\ UNCHANGED byUsername
     \/ /\ byUsername' = c
        /\ upc' = [upc EXCEPT ![c] = "insert"]
  /\ UNCHANGED <<uret, users>>
  /\ UNCHANGED otherVars

\* INSERT INTO users_by_username ... IF NOT EXISTS with the caller's new
\* TimeUUID: a query error (the row may have been written or not), applied
\* when there was no row, not applied when there was one.
CreateUserCAS(c) ==
  /\ upc[c] = "cas"
  /\ \/ /\ upc' = [upc EXCEPT ![c] = "failed"]
        /\ \/ UNCHANGED byUsername
           \/ /\ byUsername = 0
              /\ byUsername' = c
     \/ /\ byUsername = 0
        /\ byUsername' = c
        /\ upc' = [upc EXCEPT ![c] = "insert"]
     \/ /\ byUsername # 0
        /\ upc' = [upc EXCEPT ![c] = "reread"]
        /\ UNCHANGED byUsername
  /\ UNCHANGED <<uret, users>>
  /\ UNCHANGED otherVars

\* The insert was not applied: return s.GetUserIDByUsername(username).
CreateUserReread(c) ==
  /\ upc[c] = "reread"
  /\ \E r \in GetUserIDByUsername :
       IF r.err THEN /\ upc' = [upc EXCEPT ![c] = "failed"]
                     /\ UNCHANGED uret
       ELSE /\ upc' = [upc EXCEPT ![c] = "lost"]
            /\ uret' = [uret EXCEPT ![c] = r.id]
  /\ UNCHANGED <<byUsername, users>>
  /\ UNCHANGED otherVars

\* The insert was applied: INSERT INTO users, then return id.
CreateUserInsert(c) ==
  /\ upc[c] = "insert"
  /\ \/ /\ upc' = [upc EXCEPT ![c] = "failed"]
        /\ UNCHANGED <<uret, users>>
     \/ /\ users' = users \cup {c}
        /\ uret' = [uret EXCEPT ![c] = c]
        /\ upc' = [upc EXCEPT ![c] = "created"]
  /\ UNCHANGED byUsername
  /\ UNCHANGED otherVars

CreateUser(c) ==
  CreateUserLookup(c) \/ CreateUserCAS(c) \/ CreateUserReread(c)
    \/ CreateUserInsert(c)

UserNext == \E c \in Callers : HandlerLookup(c) \/ CreateUser(c)

UserSpec == UserInit /\ [][UserNext]_vars

\* ------------------------------------------------------------- properties
NoDuplicates(F) == \A i, j \in 1..Len(F) : F[i] = F[j] => i = j

\* The AddToFeed calls made for post p.
CallsFor(p) == {c \in feedCalls : c.post.ID = p.ID}

\* The post of payload m has been appended to the feed of every follower.
Delivered(m) ==
  LET p == Unmarshal(m).post
      F == Followers(p.AuthorID)
  IN  \A i \in 1..Len(F) :
        \E c \in feedCalls : c.post = p /\ c.uid = F[i] /\ c.ok

\* Nothing is in flight: readLoop holds no payload, the buffer is empty, every
\* processLoop waits for a payload and no unit is running.
Quiescent ==
  /\ rl \in {"top", "read", "empty", "backoff"}
  /\ jobs = <<>>
  /\ \A w \in Workers : wpc[w] = "recv"
  /\ units = {}

\* The well-formed payloads the queue can deliver.
PostPayloads == [id : 1..MaxMessages, body : Bodies \ {"bad"}]

\* C1: when a processLoop finishes a post (fanoutWG.Wait returns) whose
\* follower list F has no duplicates, with no AddToFeed failure and no
\* cancellation, exactly Len(F) AddToFeed calls have been made for the post,
\* exactly one per follower, each carrying the post decoded from the payload.
C1_ExactFanout ==
  [][\A w \in Workers :
       ( /\ wpc[w] = "wait" /\ wpc'[w] = "recv"
         /\ NoDuplicates(followers[w])
         /\ ~ctxDone
         /\ \A c \in CallsFor(post[w]) : c.ok )
       => /\ Cardinality(CallsFor(post[w])) = Len(followers[w])
          /\ \A i \in 1..Len(followers[w]) :
               Cardinality({c \in feedCalls :
                              c.post = post[w] /\ c.uid = followers[w][i]}) = 1
          /\ \A c \in CallsFor(post[w]) :
               /\ c.post = post[w]
               /\ \E m \in reads : m.id = c.post.ID /\ Unmarshal(m).post = c.post
    ]_vars

\* A post of a1 (more followers than permits, no duplicates) has been handled
\* to the end with every write successful and no cancellation.
C1_Witness ==
  /\ ~ctxDone
  /\ \E m \in reads :
       /\ m.body = "a1"
       /\ Cardinality({c \in feedCalls : c.post.ID = m.id /\ c.ok}) = fanoutLimit + 1
       /\ \A w \in Workers : post[w].ID # m.id /\ data[w].id # m.id

\* C2: when Run returns the job buffer is empty: every payload that was
\* enqueued has been dequeued by a processLoop.
C2_DrainedOnReturn == run = "returned" => jobs = <<>>

\* C3: when Run returns no per-follower unit is still running, so none runs
\* while or after the store is closed.
C3_AllJoinedOnReturn == run = "returned" => units = {}

\* C4: a processLoop that is back at the receive or has returned has no unit
\* of its own still running.
C4_WaitsForUnits ==
  \A w \in Workers :
    wpc[w] \in {"recv", "done"} => \A u \in units : u.w # w

\* C5: once Worker.Close has returned, both the reader's Close and the
\* store's Close have been called.
C5_CloseCallsBoth ==
  closeRet # "none" => (readerClosed = 1 /\ storeClosed = 1)

\* C6: the jobs channel is closed at most once, only after readLoop has
\* returned (so no send can follow the close), and exactly once by the time
\* Run returns.
C6_ClosedOnceAfterReadLoop ==
  /\ closeCount <= 1
  /\ closeCount = 1 => rl = "returned"
  /\ run = "returned" => closeCount = 1

\* The channel has been closed after payloads went through it.
C6_Witness == closeCount = 1 /\ nread > 0 /\ feedCalls # {}

\* C7: once the context is cancelled Run eventually returns.
C7_RunReturnsAfterCancel == ctxDone ~> (run = "returned")

\* Run has returned after a cancellation although the buffer was still full.
C7_Witness == ctxDone /\ run = "returned" /\ Len(jobs) = jobQueueSize

\* C8: after the context is cancelled no payload is enqueued into the jobs
\* channel.
C8_NoEnqueueAfterCancel == [][ctxDone => Len(jobs') <= Len(jobs)]_vars

\* C9: every unit that has been dispatched runs its AddToFeed to completion:
\* none is left unfinished when the process ends.
C9_DispatchedUnitsComplete == exited => units = {}

InPipeline(m) ==
  \/ msg = m
  \/ \E i \in 1..Len(jobs) : jobs[i] = m
  \/ \E w \in Workers : data[w] = m

\* Store calls made for the payload m, by the post ID the payload carries.
StoreCallsFor(m) ==
  {l \in lookups : l.post.ID = m.id} \cup {c \in feedCalls : c.post.ID = m.id}
    \cup {u \in units : u.post.ID = m.id}

\* C11: a payload that does not decode as a Post causes no GetFollowers and
\* no AddToFeed call (none for its id, none for the zero Post); the
\* processLoop that handled it does not return but is back at the receive of
\* the next payload, and the payload is not put back into the buffer.
C11_MalformedSkipped ==
  /\ [](/\ \A m \in reads : Unmarshal(m).err => StoreCallsFor(m) = {}
        /\ \A l \in lookups : l.post # ZeroPost)
  /\ [][\A w \in Workers :
          (wpc[w] = "handle" /\ Unmarshal(data[w]).err /\ wpc'[w] # "handle")
            => /\ wpc'[w] = "recv"
               /\ data'[w] = NoMsg
               /\ jobs' = jobs
               /\ lookups' = lookups
               /\ feedCalls' = feedCalls
               /\ units' = units]_vars

\* A malformed payload has been handled, every processLoop is alive and at
\* the receive, and the post read after it has been delivered.
C11_Witness ==
  /\ ~ctxDone
  /\ \A w \in Workers : wpc[w] = "recv"
  /\ \E m \in reads :
       /\ Unmarshal(m).err
       /\ ~InPipeline(m)
       /\ m \notin dropped
       /\ \E n \in reads : n.id > m.id /\ ~Unmarshal(n).err /\ Delivered(n)

\* C12: when GetFollowers returns an error for a decoded post, no AddToFeed
\* is dispatched for that post, the lookup is made once only (no retry), the
\* payload is not put back into the buffer, and the processLoop does not
\* return but is back at the receive of the next payload.
C12_LookupErrorSkipsPost ==
  /\ [](\A l \in lookups :
          /\ l.err => /\ \A c \in feedCalls : c.post.ID # l.post.ID
                      /\ \A u \in units : u.post.ID # l.post.ID
          /\ \A k \in lookups : k.post.ID = l.post.ID => k = l)
  /\ [][\A w \in Workers :
          (/\ wpc[w] = "handle"
           /\ \E l \in lookups' \ lookups : l.err /\ l.post.ID = data[w].id)
            => /\ wpc'[w] = "recv"
               /\ data'[w] = NoMsg
               /\ followers'[w] = <<>>
               /\ jobs' = jobs
               /\ feedCalls' = feedCalls
               /\ units' = units]_vars

\* GetFollowers has failed for a post, every processLoop is alive and at the
\* receive, and the post read after the failed one has been delivered.
C12_Witness ==
  /\ ~ctxDone
  /\ \A w \in Workers : wpc[w] = "recv"
  /\ \E l \in lookups :
       /\ l.err
       /\ \E n \in reads : n.id > l.post.ID /\ ~Unmarshal(n).err /\ Delivered(n)

\* C13: a failed AddToFeed does not stop the fan-out of its post.  When the
\* processLoop finishes a post (fanoutWG.Wait returns) some of whose calls
\* failed, every position of the follower list has had exactly one AddToFeed
\* call, for the follower at that position (the failed one is not repeated),
\* and the processLoop is back at the receive of the next payload.  At no
\* time has a position of a post's list had two calls.
C13_FeedErrorDoesNotStopFanout ==
  /\ [](\A c, d \in feedCalls : (c.post = d.post /\ c.k = d.k) => c = d)
  /\ [][\A w \in Workers :
          (/\ wpc[w] = "wait"
           /\ wpc'[w] # "wait"
           /\ \E c \in CallsFor(post[w]) : ~c.ok)
            => /\ wpc'[w] = "recv"
               /\ Cardinality(CallsFor(post[w])) = Len(followers[w])
               /\ \A i \in 1..Len(followers[w]) :
                    \E c \in CallsFor(post[w]) :
                      c.k = i /\ c.uid = followers[w][i] /\ c.post = post[w]]_vars

\* An AddToFeed of a post with several followers has failed, the other
\* follower's call was made and succeeded, every processLoop is alive and at
\* the receive, and the post read after it has been delivered.
C13_Witness ==
  /\ ~ctxDone
  /\ \A w \in Workers : wpc[w] = "recv"
  /\ \E c, d \in feedCalls :
       /\ c.post = d.post
       /\ ~c.ok
       /\ d.ok
       /\ c.uid # d.uid
       /\ \E n \in reads : n.id > c.post.ID /\ ~Unmarshal(n).err /\ Delivered(n)

\* C14: nothing but the cancellation of the context stops the worker.  If
\* readLoop or a processLoop has returned, or Run is past readLoop, the
\* context has been cancelled, whatever read errors, decode errors, store
\* errors and push timeouts have happened before.
C14_OnlyCancelStops ==
  (\/ rl = "returned"
   \/ \E w \in Workers : wpc[w] = "done"
   \/ run \in {"waiting", "returned"}) => ctxDone

\* A read has failed, a store call has failed and a push has timed out, and
\* with the context not cancelled readLoop and every processLoop still run.
C14_Witness ==
  /\ ~ctxDone
  /\ run = "running"
  /\ rl = "top"
  /\ \A w \in Workers : wpc[w] = "recv"
  /\ retry > 0
  /\ nfail > 0
  /\ dropped # {}

\* The units of processLoop w that are running for the post p.
RunningUnits(w, p) == {u \in units : u.w = w /\ u.post = p}

\* C15: the per-follower units running at the same time for one
\* processLoop's handling of one post never number more than fanoutLimit, the
\* capacity of the semaphore: a unit runs only while it holds a permit.
C15_FanoutBounded ==
  \A w \in Workers :
    /\ sem[w] <= fanoutLimit
    /\ \A u \in units : Cardinality(RunningUnits(u.w, u.post)) <= fanoutLimit
    /\ Cardinality({u \in units : u.w = w}) <= sem[w]

\* A processLoop whose post has more followers than the limit is blocked on
\* the semaphore, with fanoutLimit units running and a follower still to go,
\* while the other processLoop fans out a post of its own.
C15_Witness ==
  \E w \in Workers :
    /\ wpc[w] = "acquire"
    /\ sem[w] = fanoutLimit
    /\ Cardinality(RunningUnits(w, post[w])) = fanoutLimit
    /\ Len(followers[w]) > fanoutLimit
    /\ \E v \in Workers : v # w /\ RunningUnits(v, post[v]) # {}

\* C16: the jobs buffer never holds more payloads than the capacity Run gave
\* the channel, the jobQueueSize field as Run normalised it, and once Run has
\* made the channel that capacity stays what it was.
C16_BufferWithinCapacity ==
  /\ Len(jobs) <= jobQueueSize
  /\ run # "new" => fields.jobQueueSize = jobQueueSize

\* The buffer is full while readLoop holds the next payload and a
\* processLoop is at the receive: the push and the receive race.
C16_Witness ==
  /\ ~ctxDone
  /\ Len(jobs) = jobQueueSize
  /\ rl = "push"
  /\ \E w \in Workers : wpc[w] = "recv"

\* C17: the back-off computed for retry count r is min(1000, 2^r) ms (2^r up
\* to r = 9, the ceiling from r = 10 on, as 2^9 < 1000 < 2^10).  It is at
\* least the delay of every smaller count, never above 1000, and once a
\* smaller count has reached 1000 it stays there, for counts past the width
\* of a machine integer too.
C17_BackoffIsCappedPower ==
  rl = "backoff" =>
    /\ 2^9 < 1000 /\ 1000 < 2^10
    /\ \/ retry <= 9 /\ wait = 2^retry
       \/ retry >= 10 /\ wait = 1000
    /\ wait >= 1
    /\ wait <= 1000
    /\ \A r \in 0..retry : /\ backoff(r) <= wait
                           /\ backoff(r) = 1000 => wait = 1000

\* The back-off has been computed for a retry count of 64 or more, where a
\* 64-bit power of two no longer exists, and is the ceiling.
C17_Witness ==
  /\ rl = "backoff"
  /\ retry >= 64
  /\ wait = 1000

\* C18: retry counts the consecutive failed reads.  A failed read leaves it
\* alone and waits backoff(retry); it grows by exactly one when that wait
\* completes and not when the wait is cut short; every successful read, empty
\* or not, sets it to 0; nothing else changes it.  So the waits of a run of
\* failures do not decrease and stay within the ceiling, and the first
\* failure after a success (or after the start) waits the minimum, 1 ms.
C18_RetryCountsFailures ==
  [][/\ (rl = "read" /\ rl' = "backoff")
          => /\ retry' = retry
             /\ wait' = backoff(retry)
             /\ wait' >= wait
             /\ wait' <= 1000
             /\ (retry = 0 \/ wait = 0) => (retry = 0 /\ wait' = 1)
     /\ (rl = "backoff" /\ rl' = "top") => retry' = retry + 1
     /\ (rl = "backoff" /\ rl' = "returned") => retry' = retry
     /\ (rl = "read" /\ rl' \in {"empty", "push"}) => (retry' = 0 /\ wait' = 0)
     /\ rl \notin {"read", "backoff"} => (retry' = retry /\ wait' = wait)]_vars

\* After a successful read of a payload, two failed reads have completed
\* their waits and a third is waiting, longer than the first did.
C18_Witness ==
  /\ nread > 0
  /\ rl = "backoff"
  /\ retry = 2
  /\ wait = 4

\* C19: once Worker.Close has returned, its first call was the reader's
\* Close, a call of the store's Close came after it, it returned an error
\* exactly when the reader's Close did, and if it returned nil the reader
\* has been closed.
C19_ReaderClosedFirst ==
  closeRet # "none" =>
    /\ closeLog # <<>>
    /\ closeLog[1].call = "reader"
    /\ \A i \in 1..Len(closeLog) :
         closeLog[i].call = "store" =>
           \E j \in 1..(i - 1) : closeLog[j].call = "reader"
    /\ closeRet = "err" <=> closeLog[1].err
    /\ closeRet = "nil" => readerClosed = 1

\* Close has returned nil after closing the reader and then the store, on a
\* worker that had delivered a post before it was shut down.
C19_Witness ==
  /\ closeRet = "nil"
  /\ Len(closeLog) = 2
  /\ closeLog[2].call = "store"
  /\ readerClosed = 1
  /\ feedCalls # {}

\* The pool size a non-positive workerCount falls back to: runtime.NumCPU()
\* in New, 1 in Run.
DefaultPoolSize == IF args.path = "New" THEN args.numCPU ELSE 1

C21_PublishedPostIsSaved ==
  \A r \in Requests : (hpc[r] = "done" /\ r \in topic) => r \in postsTable

\* C22: a create-post call whose WriteMessages failed has answered 500, has
\* not called AddPost, and its post is not in the posts table.
C22_WriteFailureLeavesStore ==
  \A r \in writeFailed :
    /\ hpc[r] = "done"
    /\ status[r] = 500
    /\ r \notin addPostCalls
    /\ r \notin postsTable
    /\ r \notin topic

\* One request has failed at WriteMessages and was answered 500, while
\* another one was published and saved.
C22_Witness ==
  \E r, q \in Requests :
    /\ r \in writeFailed
    /\ status[r] = 500
    /\ status[q] = 200
    /\ q \in postsTable

\* C23: a payload whose push timed out is abandoned.  The timeout is taken
\* with the buffer full and the context not cancelled; it leaves the buffer
\* as it is and sends readLoop back to the top of the loop with no payload
\* in hand.  From then on that payload is neither held by readLoop, nor in
\* the buffer, nor with a processLoop, and no store call is made for it.
C23_TimedOutPayloadAbandoned ==
  /\ [](\A m \in dropped : ~InPipeline(m) /\ StoreCallsFor(m) = {})
  /\ [][dropped' # dropped
          => /\ rl = "push"
             /\ dropped' = dropped \cup {msg}
             /\ Len(jobs) = jobQueueSize
             /\ ~ctxDone
             /\ jobs' = jobs
             /\ msg' = NoMsg
             /\ rl' = "top"]_vars

\* A payload was abandoned by the timeout, and readLoop, not cancelled, is
\* in its next call of ReadMessage while the payload read before it has
\* been delivered.
C23_Witness ==
  /\ ~ctxDone
  /\ rl = "read"
  /\ \E m \in dropped :
       /\ ~Unmarshal(m).err
       /\ \E n \in reads : n.id < m.id /\ ~Unmarshal(n).err /\ Delivered(n)

\* C24: every push attempt of readLoop ends, by the send, by cancellation or
\* by the timeout, also when no processLoop ever takes a payload out of the
\* buffer: from the push readLoop always gets to its next ReadMessage, or
\* returns.
C24_PushTerminates == (rl = "push") ~> (rl \in {"read", "returned"})

\* With the first payload still in the full buffer and no processLoop
\* having received anything, a later payload has timed out and readLoop is
\* reading again.
C24_Witness ==
  /\ ~ctxDone
  /\ rl = "read"
  /\ Len(jobs) = jobQueueSize
  /\ jobs[1].id = 1
  /\ dropped # {}
  /\ \A w \in Workers : wpc[w] = "recv" /\ data[w] = NoMsg
  /\ lookups = {}

\* C25: once the context is cancelled readLoop enters no ReadMessage call any
\* more, so only a call it was in at the cancellation can still complete; at
\* the top of the loop a cancelled readLoop returns, and a back-off or idle
\* wait of a cancelled readLoop ends at the top of the loop or in the return.
C25_NoNewReadAfterCancel ==
  [][ctxDone =>
       /\ rl # "read" => rl' # "read"
       /\ (rl = "top" /\ rl' # "top") => rl' = "returned"
       /\ (rl \in {"backoff", "empty"} /\ rl' # rl) => rl' \in {"top", "returned"}]_vars

\* The context was cancelled while readLoop is past the check at the top of
\* the loop, in a ReadMessage call, after a failed read and its back-off.
C25_Witness ==
  /\ ctxDone
  /\ rl = "read"
  /\ retry > 0
  /\ run = "running"

\* C26: a failed read enqueues nothing and hands readLoop no payload; while
\* the context is not cancelled its back-off wait ends at the top of the loop
\* and the top of the loop leads to the next read, whatever the number of
\* failures so far; and a payload read after failures is held for the push
\* as the payload just read.
C26_ReadErrorRetried ==
  [][/\ (rl = "read" /\ rl' = "backoff")
          => (jobs' = jobs /\ msg' = NoMsg /\ reads' = reads /\ nread' = nread)
     /\ (rl = "backoff" /\ rl' # "backoff")
          => /\ jobs' = jobs
             /\ msg' = NoMsg
             /\ ~ctxDone => rl' = "top"
     /\ (rl = "top" /\ rl' # "top" /\ ~ctxDone) => rl' = "read"
     /\ (rl = "read" /\ rl' = "push")
          => /\ msg' = [id |-> nread', body |-> msg'.body]
             /\ msg' \in reads'
             /\ msg' \notin reads]_vars

\* After the first payload was enqueued, reads have failed three times in a
\* row and readLoop, not cancelled, is reading again; nothing else is in the
\* buffer.
C26_Witness ==
  /\ ~ctxDone
  /\ rl = "read"
  /\ nread = 1
  /\ retry >= 3
  /\ Len(jobs) = 1
  /\ jobs[1].id = 1

\* C27: an empty payload goes nowhere.  The read that returns it leaves the
\* buffer alone and hands readLoop no payload; the idle wait that follows is
\* no back-off (retry and the back-off delay stay 0) and ends at the top of
\* the loop, or in the return of a cancelled readLoop.  Everything in the
\* buffer or with a processLoop is a non-empty payload that was read, and
\* every store call is made for the post of such a payload.
C27_EmptyPayloadSkipped ==
  /\ [](/\ \A i \in 1..Len(jobs) : jobs[i] \in reads
        /\ \A w \in Workers : wpc[w] = "handle" => data[w] \in reads
        /\ \A l \in lookups : \E m \in reads : l.post = Unmarshal(m).post
        /\ \A c \in feedCalls : \E m \in reads : c.post = Unmarshal(m).post
        /\ \A u \in units : \E m \in reads : u.post = Unmarshal(m).post)
  /\ [][/\ (rl = "read" /\ rl' = "empty")
             => (jobs' = jobs /\ msg' = NoMsg /\ reads' = reads)
        /\ rl' = "empty" => (retry' = 0 /\ wait' = 0)
        /\ (rl = "empty" /\ rl' # "empty")
             => /\ rl' \in {"top", "returned"}
                /\ ~ctxDone => rl' = "top"
                /\ jobs' = jobs
                /\ msg' = NoMsg]_vars

\* After a post was read and delivered, a read has returned an empty payload
\* and readLoop is in its idle wait, with nothing in the buffer.
C27_Witness ==
  /\ ~ctxDone
  /\ rl = "empty"
  /\ jobs = <<>>
  /\ \A w \in Workers : wpc[w] = "recv"
  /\ \E m \in reads : ~Unmarshal(m).err /\ Delivered(m)

\* The positions of the follower list of post p for which a unit has been
\* launched (it is running, or its AddToFeed call has been made).
Dispatched(p) ==
  {u.k : u \in {v \in units : v.post = p}}
    \cup {c.k : c \in {d \in feedCalls : d.post = p}}

\* C28: a processLoop that finds the context cancelled at the check before a
\* follower launches nothing for that follower and returns, and a processLoop
\* that has returned stays so.  Hence the followers of a post for which a
\* unit was launched are always the first n of the list GetFollowers gave,
\* each unit for the follower at its position.
C28_DispatchedIsPrefix ==
  /\ [](\A m \in reads :
          LET p == Unmarshal(m).post
              F == Followers(p.AuthorID)
          IN /\ Dispatched(p) = 1..Cardinality(Dispatched(p))
             /\ Cardinality(Dispatched(p)) <= Len(F)
             /\ \A u \in units : u.post = p => u.uid = F[u.k]
             /\ \A c \in feedCalls : c.post = p => c.uid = F[c.k])
  /\ [][\A w \in Workers :
          /\ (wpc[w] = "check" /\ ctxDone /\ wpc'[w] # "check")
               => (wpc'[w] = "done" /\ units' = units /\ feedCalls' = feedCalls)
          /\ wpc[w] = "done" => wpc'[w] = "done"]_vars

\* Cancelled in the middle of a fan-out: every processLoop has returned, and
\* of a post with two followers the first has had its AddToFeed call and the
\* second has had none.
C28_Witness ==
  /\ ctxDone
  /\ units = {}
  /\ \A w \in Workers : wpc[w] = "done"
  /\ \E m \in reads :
       LET p == Unmarshal(m).post
       IN /\ Len(Followers(p.AuthorID)) = 2
          /\ Dispatched(p) = {1}

\* C29: the units of one processLoop that are running all belong to one
\* post, the one the processLoop is handling if it has not returned; a
\* processLoop that is at the receive or has just received a payload has no
\* unit running and no post in hand; so the posts with running units never
\* number more than the processLoops of the pool.
C29_OnePostPerWorker ==
  /\ \A u, v \in units : u.w = v.w => u.post = v.post
  /\ \A u \in units : wpc[u.w] # "done" => u.post = post[u.w]
  /\ \A w \in Workers :
       wpc[w] \in {"recv", "handle"}
         => /\ \A u \in units : u.w # w
            /\ post[w] = ZeroPost
            /\ fwg[w] = 0
  /\ Cardinality({u.post : u \in units}) <= workerCount

\* Every processLoop of the pool has a unit running, each for a post of its
\* own.
C29_Witness ==
  /\ Cardinality({u.post : u \in units}) = workerCount
  /\ \A w \in Workers : \E u \in units : u.w = w

\* The id of the payload a processLoop is handling (0: none).
Handling(w) ==
  CASE wpc[w] = "handle" -> data[w].id
    [] wpc[w] \in {"check", "acquire", "wait"} -> post[w].ID
    [] OTHER -> 0

\* The last element of a sequence of ids (0 for the empty sequence).
Last(q) == IF q = <<>> THEN 0 ELSE q[Len(q)]

\* C30: the payloads received from jobs are, in order, the first of those
\* sent, and the buffer holds the rest in the order of the sends; the sends
\* are in the order of the reads and cover every payload read that was not
\* dropped (but the one in readLoop's hand, or abandoned at cancellation);
\* a processLoop receives payloads in that order and handles the one it
\* received last; with a pool of one processLoop every store call is for
\* the payload received last, so posts are handled in the order of the sends.
C30_FifoOrder ==
  /\ [](/\ Len(deq) <= Len(enq)
        /\ \A i \in 1..Len(deq) : deq[i] = enq[i]
        /\ Len(jobs) = Len(enq) - Len(deq)
        /\ \A i \in 1..Len(jobs) : jobs[i].id = enq[Len(deq) + i]
        /\ \A i, j \in 1..Len(enq) : i < j => enq[i] < enq[j]
        /\ \A i \in 1..Len(enq) :
             \E m \in reads \ dropped : m.id = enq[i]
        /\ \A m \in reads \ dropped :
             \/ \E i \in 1..Len(enq) : enq[i] = m.id
             \/ m = msg
             \/ rl = "returned" /\ m.id = nread
        /\ fields.workerCount = 1 /\ run # "new"
             => \A w \in DOMAIN wpc : Handling(w) \in {0, Last(deq)})
  /\ [][/\ \A w \in DOMAIN wpc :
             (w \in DOMAIN wpc' /\ wpc[w] = "recv" /\ wpc'[w] = "handle")
               => /\ jobs # <<>>
                  /\ data'[w] = Head(jobs)
                  /\ jobs' = Tail(jobs)
                  /\ \A i \in 1..Len(deq) : deq[i] < data'[w].id
        /\ fields.workerCount = 1
             => /\ \A c \in lookups' \ lookups : c.post.ID = Last(deq)
                /\ \A c \in feedCalls' \ feedCalls : c.post.ID = Last(deq)]_vars

\* A pool of one processLoop and a channel of two places: both payloads
\* were sent, received in that order, and both posts were fanned out.
C30_Witness ==
  /\ fields.workerCount = 1
  /\ fields.jobQueueSize = MaxQueue
  /\ dropped = {}
  /\ deq = <<1, 2>>
  /\ \A n \in {1, 2} : \E c \in feedCalls : c.post.ID = n

\* The units of a processLoop that are running.
UnitsOf(w) == {u \in units : u.w = w}

\* C31: the semaphore is made anew for each post (no permit is held when the
\* range loop starts) and belongs to one processLoop: a processLoop that
\* cannot take a permit has fanoutLimit running units of its own post, a
\* processLoop with fewer running units of its own can always take one
\* whatever the other processLoops hold, and the permits of a processLoop
\* change only by its own send and by the release of one of its own units.
C31_PermitsPerPost ==
  /\ [](\A w \in Workers :
          /\ (wpc[w] = "acquire" /\ ~ENABLED FanoutAcquire(w))
               => /\ Cardinality(UnitsOf(w)) = fanoutLimit
                  /\ \A u \in UnitsOf(w) : u.post = post[w]
          /\ (wpc[w] = "acquire" /\ Cardinality(UnitsOf(w)) < fanoutLimit)
               => ENABLED FanoutAcquire(w))
  /\ [][\A w \in Workers :
          /\ (wpc[w] = "handle" /\ wpc'[w] \in {"check", "wait"})
               => (sem'[w] = 0 /\ UnitsOf(w) = {})
          /\ sem'[w] > sem[w]
               => /\ wpc[w] = "acquire"
                  /\ \E u \in units' \ units : u.w = w /\ u.post = post[w]
          /\ sem'[w] < sem[w]
               => \E u \in units \ units' : u.w = w]_vars

\* Each of two processLoops holds every permit of its own post's semaphore,
\* and one of them waits for a permit.
C31_Witness ==
  /\ \A w \in Workers : sem[w] = fanoutLimit
  /\ \A v, w \in Workers : v # w => post[v] # post[w]
  /\ \E w \in Workers : wpc[w] = "acquire"

\* How many times the follower f occurs in the list F.
Multiplicity(f, F) == Cardinality({i \in 1..Len(F) : F[i] = f})

\* The AddToFeed calls made for the post p and the follower f.
CallsForFollower(p, f) == {c \in feedCalls : c.post = p /\ c.uid = f}

\* C32: when a processLoop finishes a post (fanoutWG.Wait returns) without
\* cancellation, each follower has had as many AddToFeed calls for the post
\* as it has occurrences in the list GetFollowers returned, whether the
\* calls succeeded or not.
C32_NoDeduplication ==
  [][\A w \in Workers :
       (wpc[w] = "wait" /\ wpc'[w] = "recv" /\ ~ctxDone)
         => \A i \in 1..Len(followers[w]) :
              Cardinality(CallsForFollower(post[w], followers[w][i]))
                = Multiplicity(followers[w][i], followers[w])]_vars

\* A post whose follower list names one follower twice has been finished:
\* two AddToFeed calls were made for that follower.
C32_Witness ==
  /\ ~ctxDone
  /\ \E l \in lookups :
       /\ ~l.err
       /\ Multiplicity(1, Followers(l.post.AuthorID)) = 2
       /\ Cardinality(CallsForFollower(l.post, 1)) = 2
       /\ \A w \in Workers : post[w] # l.post

\* C33: no payload is received twice from jobs and no two processLoops hold
\* the same payload or the same post; so the units of a post all belong to
\* one processLoop, a position of the follower list has at most one unit and
\* at most one AddToFeed call, and the calls made for a follower never
\* number more than its occurrences in the list; a post finished without
\* cancellation has exactly one call for a follower that occurs once.
C33_DequeuedOnce ==
  /\ [](/\ \A i, j \in 1..Len(deq) : deq[i] = deq[j] => i = j
        /\ \A v, w \in Workers :
             v # w => /\ data[v] # NoMsg => data[v] # data[w]
                      /\ post[v] # ZeroPost => post[v] # post[w]
        /\ \A u, v \in units : u.post = v.post => u.w = v.w
        /\ \A u \in units : \A c \in feedCalls : ~(c.post = u.post /\ c.k = u.k)
        /\ \A c, d \in feedCalls : (c.post = d.post /\ c.k = d.k) => c = d
        /\ \A m \in reads :
             LET p == Unmarshal(m).post
                 F == Followers(p.AuthorID)
             IN \A i \in 1..Len(F) :
                  Cardinality(CallsForFollower(p, F[i])) <= Multiplicity(F[i], F))
  /\ [][\A w \in Workers :
          (wpc[w] = "wait" /\ wpc'[w] = "recv" /\ ~ctxDone)
            => \A i \in 1..Len(followers[w]) :
                 Multiplicity(followers[w][i], followers[w]) = 1
                   => Cardinality(CallsForFollower(post[w], followers[w][i])) = 1]_vars

\* Two processLoops have each received one of two payloads, and the post of
\* one of them, whose followers occur once each, has one call per follower.
C33_Witness ==
  /\ Len(deq) = 2
  /\ \E l \in lookups :
       LET F == Followers(l.post.AuthorID)
       IN /\ ~l.err
          /\ NoDuplicates(F)
          /\ Len(F) > 0
          /\ \A i \in 1..Len(F) : Cardinality(CallsForFollower(l.post, F[i])) = 1
  /\ \E w \in Workers : wpc[w] \in {"handle", "check", "acquire", "wait"}

\* C34: the permits held in a processLoop's semaphore are as many as its
\* units that are running; a unit that finishes gives back one permit,
\* whether its AddToFeed failed or not, and nothing else gives one back; and
\* under fair scheduling a processLoop that waits for a permit with the
\* semaphore full gets past the send.
C34_PermitsMatchUnits ==
  /\ [](\A w \in Workers : sem[w] = Cardinality(UnitsOf(w)))
  /\ [][/\ \A u \in units \ units' : sem'[u.w] = sem[u.w] - 1
        /\ \A w \in Workers :
             sem'[w] < sem[w]
               => /\ sem'[w] = sem[w] - 1
                  /\ Cardinality(feedCalls' \ feedCalls) = 1
                  /\ \E u \in units \ units' : u.w = w]_vars
  /\ \A w \in Workers :
       (wpc[w] = "acquire" /\ sem[w] = fanoutLimit)
         ~> (wpc[w] # "acquire" \/ sem[w] < fanoutLimit)

\* An AddToFeed of a post has failed, its permit is back, and the
\* processLoop has gone on to dispatch the next follower of the post.
C34_Witness ==
  \E w \in Workers :
    /\ post[w] # ZeroPost
    /\ \E c \in feedCalls : c.post = post[w] /\ c.k = 1 /\ ~c.ok
    /\ \E u \in units : u.w = w /\ u.k = 2
    /\ sem[w] = 1

\* Where a payload that was read is: in readLoop's hand, in the buffer,
\* received by a processLoop, abandoned by the push timeout, or abandoned
\* by readLoop's return on cancellation during the push.
Held(m) == msg = m

Buffered(m) == \E i \in 1..Len(jobs) : jobs[i] = m

Taken(m) == \E i \in 1..Len(deq) : deq[i] = m.id

TimedOut(m) == m \in dropped

Cancelled(m) ==
  /\ rl = "returned"
  /\ ctxDone
  /\ m.id = nread
  /\ m \notin dropped
  /\ \A i \in 1..Len(enq) : enq[i] # m.id

PayloadStates(m) ==
  {s \in {"held", "buffered", "taken", "dropped"} :
     \/ s = "held" /\ Held(m)
     \/ s = "buffered" /\ Buffered(m)
     \/ s = "taken" /\ Taken(m)
     \/ s = "dropped" /\ (TimedOut(m) \/ Cancelled(m))}

\* C35: every payload a read has returned is in exactly one of the states
\* held, buffered, taken and dropped; it is received at most once and held
\* by at most one processLoop; the buffer holds only payloads that were
\* read, none of them empty and none of them twice; readLoop holds a
\* payload only between the read and the push.
C35_PayloadInOneState ==
  /\ \A m \in reads : Cardinality(PayloadStates(m)) = 1
  /\ \A i, j \in 1..Len(deq) : deq[i] = deq[j] => i = j
  /\ \A v, w \in DOMAIN wpc : (data[v] # NoMsg /\ data[v] = data[w]) => v = w
  /\ \A w \in DOMAIN wpc : data[w] # NoMsg => (data[w] \in reads /\ Taken(data[w]))
  /\ \A i \in 1..Len(jobs) : jobs[i] \in reads /\ jobs[i] # NoMsg
  /\ \A i, j \in 1..Len(jobs) : jobs[i] = jobs[j] => i = j
  /\ msg # NoMsg <=> rl = "push"
  /\ msg # NoMsg => msg \in reads

\* One payload has been received by a processLoop and another one was
\* abandoned by the push timeout; nothing is left in the buffer or in
\* readLoop's hand.
C35_Witness ==
  /\ \E m \in reads : Taken(m)
  /\ \E m \in reads : TimedOut(m)
  /\ jobs = <<>>
  /\ msg = NoMsg

\* The callers whose call has returned a user id and no error.
Returned == {c \in Callers : upc[c] \in {"found", "existing", "lost", "created"}}

\* C36: the row of the username, once written, keeps its user id; every
\* caller that got an id back without an error got the id of that row,
\* never the empty string; and only the id of that row has a row in the
\* users table.
C36_OneUserPerUsername ==
  /\ [](/\ \A c \in Returned : uret[c] = byUsername /\ uret[c] # 0
        /\ \A c, d \in Returned : uret[c] = uret[d]
        /\ users \subseteq {byUsername} \ {0})
  /\ [][byUsername # 0 => byUsername' = byUsername]_vars

\* Two callers passed the first lookup before there was a row: one wrote
\* the row and created the user, the other lost the insert and got the
\* winner's id from its second lookup.
C36_Witness ==
  \E c, d \in Callers :
    /\ upc[c] = "created"
    /\ upc[d] = "lost"
    /\ uret[c] = c
    /\ uret[d] = c
====
